---- MODULE Spec2Model ----
(***************************************************************************)
(* The mesh decoders of line-casting: THREE.PLYLoader and THREE.STLLoader  *)
(* (src/unnamed/part_000).  One decode call is a run of the state machine: *)
(* the input is fixed in the initial state, every loop iteration of the    *)
(* decoder is one step, and the call ends by returning a mesh or by        *)
(* throwing.                                                               *)
(*                                                                         *)
(* JavaScript numbers are modelled by integers.  A colour channel c/255    *)
(* (or c/31) is kept as the pair <<c, 255>> (or <<c, 31>>).                *)
(***************************************************************************)
EXTENDS Integers, Sequences, FiniteSets, TLC

VARIABLES
    data,                 \* PLY: the input of the decode call
    pc,                   \* PLY: position of the decode call
    header,               \* PLY: the result of parseHeader
    lineIdx,              \* PLY: parseASCII's loop variable i (1-based here)
    currentElement,       \* PLY: index into header.elements (1-based here)
    currentElementCount,  \* PLY: records consumed of the current element
    loc,                  \* PLY: parseBinary's cursor, relative to headerLength
    geometry,             \* PLY: the THREE.Geometry under construction
    handled,              \* PLY: history of the handleElement calls
    reads,                \* PLY: history of the DataView reads
    outcome,              \* PLY: "running", "returned" or the error thrown
    face,                 \* STL: parseBinary's loop variable face
    faces,                \* STL: parseBinary's triangle count
    lastIndex,            \* STL: where patternFace searches next
    normal,               \* STL: parseASCII's variable normal
    isMouseDown,          \* main.js: the mouse button is held
    isAddingPoints,       \* main.js: the add-points mode of the button
    markCounter,          \* main.js: mouse moves since the last point
    currentPoint,         \* main.js: index of the next vertex to set
    currentLine,          \* main.js: the line of the last mousedown (0: none)
    theLine,              \* main.js: what was written into that line
    write                 \* main.js: the index of the latest vertex write (-1: none)

\* data, pc, geometry, handled and outcome are those of the decode call under
\* way, of THREE.PLYLoader or of THREE.STLLoader.
plyVars == <<data, pc, header, lineIdx, currentElement, currentElementCount,
             loc, geometry, handled, reads, outcome>>
stlVars == <<face, faces, lastIndex, normal>>
drawVars == <<isMouseDown, isAddingPoints, markCounter, currentPoint, currentLine,
              theLine, write>>

vars == <<plyVars, stlVars, drawVars>>

\* The page as loaded: no button held, no line.
NoLine == [count |-> 0, first |-> -1, last |-> -1, positioned |-> FALSE]
PageLoaded ==
    /\ isMouseDown = FALSE
    /\ isAddingPoints = FALSE
    /\ markCounter = 0
    /\ currentPoint = 0
    /\ currentLine = 0
    /\ theLine = NoLine
    /\ write = -1

(***************************************************************************)
(* Bounds of the input space.                                              *)
(***************************************************************************)
MaxElements == 3
MaxCount == 2
MaxArity == 5
MaxCut == 1
MaxContentElements == 2

(***************************************************************************)
(* JavaScript values that are not integers.                                *)
(***************************************************************************)
NaN == -999999
Undefined == -999998
NonInteger == -999997
ArrayRef == -999996

IsNumber(v) == v \notin {NaN, Undefined, NonInteger, ArrayRef}

RECURSIVE SeqSum(_)
SeqSum(s) == IF s = <<>> THEN 0 ELSE Head(s) + SeqSum(Tail(s))

RECURSIVE Flatten(_)
Flatten(ss) == IF ss = <<>> THEN <<>> ELSE Head(ss) \o Flatten(Tail(ss))

RECURSIVE Pow2(_)
Pow2(n) == IF n <= 0 THEN 1 ELSE 2 * Pow2(n - 1)

\* Array.prototype.shift on a token list: the head, or undefined when empty
\* (parseInt and parseFloat turn undefined into the string "undefined").
Shift(values) == IF values = <<>> THEN "undefined" ELSE Head(values)
Rest(values) == IF values = <<>> THEN <<>> ELSE Tail(values)

\* A decoded record (the object "element"): its keys holding a number and its
\* keys holding an array.  An assignment replaces what the key held before.
EmptyObject == [scalars |-> <<>>, lists |-> <<>>]
Without(f, key) == [k \in DOMAIN f \ {key} |-> f[k]]
With(f, key, v) == [k \in DOMAIN f \cup {key} |-> IF k = key THEN v ELSE f[k]]
PutScalar(obj, key, v) ==
    [scalars |-> With(obj.scalars, key, v), lists |-> Without(obj.lists, key)]
PutList(obj, key, v) ==
    [scalars |-> Without(obj.scalars, key), lists |-> With(obj.lists, key, v)]
HasKey(obj, key) == key \in DOMAIN obj.scalars \/ key \in DOMAIN obj.lists
\* obj[key] where a number is stored or used.
Get(obj, key) ==
    IF key \in DOMAIN obj.scalars THEN obj.scalars[key]
    ELSE IF key \in DOMAIN obj.lists THEN ArrayRef
    ELSE Undefined
\* obj[key] / d: an array converts to 0 (empty), its item (one item) or NaN.
ToNumber(obj, key) ==
    IF key \in DOMAIN obj.scalars
    THEN IF IsNumber(obj.scalars[key]) THEN obj.scalars[key] ELSE NaN
    ELSE IF key \in DOMAIN obj.lists
    THEN LET a == obj.lists[key]
         IN  IF a = <<>> THEN 0
             ELSE IF Len(a) = 1 /\ IsNumber(a[1]) THEN a[1]
             ELSE NaN
    ELSE NaN

(***************************************************************************)
(* Number literals of the ASCII body and their parseInt / parseFloat.      *)
(***************************************************************************)
Decimal == <<"0", "1", "2", "3", "4", "5", "6", "7", "8", "9", "10", "11",
             "12", "13", "14", "15", "16", "17", "18", "19", "20", "21",
             "22", "23", "24">>
DecimalValue(n) == (CHOOSE k \in 1..Len(Decimal) : Decimal[k] = n) - 1
IsDecimal(n) == \E k \in 1..Len(Decimal) : Decimal[k] = n

parseInt(n) ==
    IF IsDecimal(n) THEN DecimalValue(n)
    ELSE IF n = "128" THEN 128
    ELSE IF n = "255" THEN 255
    ELSE IF n = "1e1" THEN 1
    ELSE NaN

parseFloat(n) ==
    IF IsDecimal(n) THEN DecimalValue(n)
    ELSE IF n = "128" THEN 128
    ELSE IF n = "255" THEN 255
    ELSE IF n = "1e1" THEN 10
    ELSE NaN

IntTypes == {"char", "uchar", "short", "ushort", "int", "uint",
             "int8", "uint8", "int16", "uint16", "int32", "uint32"}
FloatTypes == {"float", "double", "float32", "float64"}

parseASCIINumber(n, type) ==
    IF type \in IntTypes THEN parseInt(n)
    ELSE IF type \in FloatTypes THEN parseFloat(n)
    ELSE Undefined

(***************************************************************************)
(* parseHeader.  The header text between "ply" and "end_header" is a       *)
(* sequence of lines, each line the sequence of its whitespace-separated   *)
(* tokens (a blank line is the empty sequence).                            *)
(***************************************************************************)
InMapping(name, propertyNameMapping) == name \in DOMAIN propertyNameMapping

\* The mapping looked up under propertValues[1], the name of a scalar only.
make_ply_element_property_scalar_name(propertValues, propertyNameMapping) ==
    LET type == Shift(propertValues)
        raw == IF type = "list"
               THEN [type |-> type, name |-> propertValues[4],
                     countType |-> propertValues[2], itemType |-> propertValues[3]]
               ELSE [type |-> type, name |-> propertValues[2]]
    IN  IF InMapping(propertValues[2], propertyNameMapping)
        THEN [raw EXCEPT !.name = propertyNameMapping[propertValues[2]]]
        ELSE raw

make_ply_element_property(propertValues, propertyNameMapping) ==
    LET type == Shift(propertValues)
        raw == IF type = "list"
               THEN [type |-> type, name |-> propertValues[4],
                     countType |-> propertValues[2], itemType |-> propertValues[3]]
               ELSE [type |-> type, name |-> propertValues[2]]
    IN  IF InMapping(raw.name, propertyNameMapping)
        THEN [raw EXCEPT !.name = propertyNameMapping[raw.name]]
        ELSE raw

NoElement == [name |-> "", count |-> 0, properties |-> <<>>, none |-> TRUE]

\* One iteration of the loop over the header lines: h is the header so far,
\* cur the element under construction (NoElement for undefined).
HeaderLine(h, cur, line, propertyNameMapping) ==
    LET lineType == Shift(line)
        lineValues == Rest(line)
    IN  IF line = <<>> THEN [h |-> h, cur |-> cur]
        ELSE IF lineType = "format"
        THEN [h |-> [h EXCEPT !.format = lineValues[1], !.version = lineValues[2]],
              cur |-> cur]
        ELSE IF lineType = "comment"
        THEN [h |-> [h EXCEPT !.comments = Append(@, lineValues)], cur |-> cur]
        ELSE IF lineType = "element"
        THEN [h |-> IF cur.none THEN h
                    ELSE [h EXCEPT !.elements = Append(@, cur)],
              cur |-> [name |-> lineValues[1], count |-> parseInt(lineValues[2]),
                       properties |-> <<>>, none |-> FALSE]]
        ELSE IF lineType = "property"
        THEN IF cur.none
             THEN [h |-> [h EXCEPT !.threw = TRUE], cur |-> cur]
             ELSE [h |-> h,
                   cur |-> [cur EXCEPT !.properties =
                               Append(@, make_ply_element_property(lineValues,
                                                                   propertyNameMapping))]]
        ELSE [h |-> h, cur |-> cur]

RECURSIVE HeaderLines(_, _, _, _)
HeaderLines(h, cur, lines, propertyNameMapping) ==
    IF lines = <<>> \/ h.threw
    THEN IF cur.none \/ h.threw THEN h ELSE [h EXCEPT !.elements = Append(@, cur)]
    ELSE LET s == HeaderLine(h, cur, Head(lines), propertyNameMapping)
         IN  HeaderLines(s.h, s.cur, Tail(lines), propertyNameMapping)

parseHeader(d) ==
    HeaderLines([comments |-> <<>>, elements |-> <<>>,
                 headerLength |-> d.headerLength,
                 format |-> "undefined", version |-> "undefined",
                 threw |-> FALSE],
                NoElement, d.headerLines, d.propertyNameMapping)

(***************************************************************************)
(* parseASCIIElement: one body line (its tokens) read by a property list.  *)
(***************************************************************************)
RECURSIVE AsciiList(_, _, _, _)
AsciiList(values, n, itemType, list) ==
    IF n = NaN \/ Len(list) >= n
    THEN [values |-> values, list |-> list]
    ELSE AsciiList(Rest(values), n, itemType,
                   Append(list, parseASCIINumber(Shift(values), itemType)))

RECURSIVE AsciiProperties(_, _, _)
AsciiProperties(properties, values, element) ==
    IF properties = <<>> THEN element
    ELSE LET p == Head(properties)
         IN  IF p.type = "list"
             THEN LET n == parseASCIINumber(Shift(values), p.countType)
                      r == AsciiList(Rest(values), n, p.itemType, <<>>)
                  IN  AsciiProperties(Tail(properties), r.values,
                                      PutList(element, p.name, r.list))
             ELSE AsciiProperties(Tail(properties), Rest(values),
                                  PutScalar(element, p.name,
                                            parseASCIINumber(Shift(values), p.type)))

parseASCIIElement(properties, line) == AsciiProperties(properties, line, EmptyObject)

(***************************************************************************)
(* handleElement and postProcess.  A Face3 is <<a, b, c>>; a colour is the *)
(* triple of its channels, each <<numerator, 255>>.                        *)
(***************************************************************************)
NewGeometry == [vertices |-> <<>>, colors |-> <<>>, faces |-> <<>>,
                useColor |-> FALSE, vertexColors |-> <<>>]

Face3(a, b, c) == <<a, b, c>>

\* The quad split along the other diagonal.
FacesOfOtherDiagonal(vertex_indices) ==
    IF Len(vertex_indices) = 3
    THEN <<Face3(vertex_indices[1], vertex_indices[2], vertex_indices[3])>>
    ELSE IF Len(vertex_indices) = 4
    THEN <<Face3(vertex_indices[1], vertex_indices[2], vertex_indices[3]),
           Face3(vertex_indices[1], vertex_indices[3], vertex_indices[4])>>
    ELSE <<>>

FacesOf(vertex_indices) ==
    IF Len(vertex_indices) = 3
    THEN <<Face3(vertex_indices[1], vertex_indices[2], vertex_indices[3])>>
    ELSE IF Len(vertex_indices) = 4
    THEN <<Face3(vertex_indices[1], vertex_indices[2], vertex_indices[4]),
           Face3(vertex_indices[2], vertex_indices[3], vertex_indices[4])>>
    ELSE <<>>

HasColor(element) ==
    HasKey(element, "red") /\ HasKey(element, "green") /\ HasKey(element, "blue")

\* The geometry after the call, and whether the call threw a TypeError
\* (element.vertex_indices is undefined: reading its length throws).
handleElement(g, elementName, element) ==
    IF elementName = "vertex"
    THEN LET g1 == [g EXCEPT !.vertices =
                       Append(@, <<Get(element, "x"), Get(element, "y"),
                                   Get(element, "z")>>)]
         IN  [threw |-> FALSE,
              g |-> IF HasColor(element)
                    THEN [g1 EXCEPT !.useColor = TRUE,
                                    !.colors = Append(@,
                                        <<<<ToNumber(element, "red"), 255>>,
                                          <<ToNumber(element, "green"), 255>>,
                                          <<ToNumber(element, "blue"), 255>>>>)]
                    ELSE g1]
    ELSE IF elementName = "face"
    THEN IF ~HasKey(element, "vertex_indices")
         THEN [threw |-> TRUE, g |-> g]
         ELSE IF "vertex_indices" \in DOMAIN element.lists
         THEN [threw |-> FALSE,
               g |-> [g EXCEPT !.faces = @ \o FacesOf(element.lists["vertex_indices"])]]
         ELSE [threw |-> FALSE, g |-> g]
    ELSE [threw |-> FALSE, g |-> g]

\* colors[i] of a JavaScript array: undefined outside it.
ColorAt(g, i) ==
    IF i \in 0..(Len(g.colors) - 1) THEN g.colors[i + 1]
    ELSE <<<<Undefined, 255>>, <<Undefined, 255>>, <<Undefined, 255>>>>

postProcess(g) ==
    IF g.useColor
    THEN [g EXCEPT !.vertexColors =
             [i \in 1..Len(g.faces) |->
                 <<ColorAt(g, g.faces[i][1]), ColorAt(g, g.faces[i][2]),
                   ColorAt(g, g.faces[i][3])>>]]
    ELSE g

(***************************************************************************)
(* The DataView over the input buffer.  The buffer holds the header text   *)
(* (headerLength bytes, not read through the view) and then the payload.   *)
(***************************************************************************)
ByteLength(buffer) == buffer.headerLength + Len(buffer.payload)

\* The byte at an absolute offset.  A slice past the end holds no such byte:
\* b[i] is undefined, which the bitwise operators of the getters take as 0.
ByteAt(buffer, i) ==
    IF i >= buffer.headerLength /\ i < ByteLength(buffer)
    THEN buffer.payload[i - buffer.headerLength + 1]
    ELSE 0

DataView(buffer, byteOffset) ==
    [buffer |-> buffer, byteOffset |-> byteOffset, byteLength |-> ByteLength(buffer)]

\* The check with the length of the read left out.
OutOfBoundsOfOffset(length, byteOffset, byteLength) ==
    length < 0 \/ byteOffset > byteLength

\* The bounds check of a read of length bytes at the absolute offset.
OutOfBounds(length, byteOffset, byteLength) ==
    length < 0 \/ byteOffset + length > byteLength

Reverse(s) == [i \in 1..Len(s) |-> s[Len(s) + 1 - i]]

\* _getBytes: the bytes in little-endian order (b[0] first), or the throw.
getBytes(view, length, at, littleEndian) ==
    LET byteOffset == view.byteOffset + at
        result == [i \in 1..length |-> ByteAt(view.buffer, byteOffset + i - 1)]
    IN  IF OutOfBounds(length, byteOffset, view.byteLength)
        THEN [threw |-> TRUE, b |-> <<>>, at |-> byteOffset, size |-> length]
        ELSE [threw |-> FALSE,
              b |-> IF ~littleEndian /\ length > 1 THEN Reverse(result) ELSE result,
              at |-> byteOffset, size |-> length]

getUint8(b) == b[1]
getInt8(b) == IF b[1] >= 128 THEN b[1] - 256 ELSE b[1]
getUint16(b) == b[2] * 256 + b[1]
getInt16(b) == IF getUint16(b) >= 32768 THEN getUint16(b) - 65536 ELSE getUint16(b)
getInt32(b) ==
    (IF b[4] >= 128 THEN b[4] - 256 ELSE b[4]) * 16777216
        + b[3] * 65536 + b[2] * 256 + b[1]
\* Values from 2^31 on are beyond the integers of the model checker and are
\* kept at 2^31 - 1.
getUint32(b) ==
    IF b[4] >= 128 THEN 2147483647
    ELSE b[4] * 16777216 + b[3] * 65536 + b[2] * 256 + b[1]

\* sign * (1 + mantissa * 2^-23) * 2^exponent, when that is an integer.
getFloat32(b) ==
    LET sign == 1 - 2 * (b[4] \div 128)
        exponent == (((b[4] * 2) % 256) + (b[3] \div 128)) - 127
        mantissa == ((b[3] % 128) * 65536) + (b[2] * 256) + b[1]
    IN  IF exponent = 128 THEN NaN
        ELSE IF exponent = -127
        THEN IF mantissa = 0 THEN 0 ELSE NonInteger
        ELSE IF exponent < 0 \/ exponent > 23 THEN NonInteger
        ELSE IF (8388608 + mantissa) % Pow2(23 - exponent) # 0 THEN NonInteger
        ELSE sign * ((8388608 + mantissa) \div Pow2(23 - exponent))

\* The same for binary64, on the 20 high bits of the mantissa; a value with
\* lower mantissa bits set is not an integer below 2^21.
getFloat64(b) ==
    LET sign == 1 - 2 * (b[8] \div 128)
        exponent == ((((b[8] * 2) % 256) * 8) + (b[7] \div 16)) - 1023
        high == ((b[7] % 16) * 65536) + (b[6] * 256) + b[5]
        low == <<b[4], b[3], b[2], b[1]>>
    IN  IF exponent = 1024 THEN NaN
        ELSE IF exponent = -1023
        THEN IF high = 0 /\ low = <<0, 0, 0, 0>> THEN 0 ELSE NonInteger
        ELSE IF exponent < 0 \/ exponent > 20 \/ low # <<0, 0, 0, 0>> THEN NonInteger
        ELSE IF (1048576 + high) % Pow2(20 - exponent) # 0 THEN NonInteger
        ELSE sign * ((1048576 + high) \div Pow2(20 - exponent))

TypeSize(type) ==
    IF type \in {"int8", "char", "uint8", "uchar"} THEN 1
    ELSE IF type \in {"int16", "short", "uint16", "ushort"} THEN 2
    ELSE IF type \in {"int32", "int", "uint32", "uint", "float32", "float"} THEN 4
    ELSE IF type \in {"float64", "double"} THEN 8
    ELSE 0

Decode(b, type) ==
    IF type \in {"int8", "char"} THEN getInt8(b)
    ELSE IF type \in {"uint8", "uchar"} THEN getUint8(b)
    ELSE IF type \in {"int16", "short"} THEN getInt16(b)
    ELSE IF type \in {"uint16", "ushort"} THEN getUint16(b)
    ELSE IF type \in {"int32", "int"} THEN getInt32(b)
    ELSE IF type \in {"uint32", "uint"} THEN getUint32(b)
    ELSE IF type \in {"float32", "float"} THEN getFloat32(b)
    ELSE getFloat64(b)

\* binaryRead: [value, size], or the throw of the view (RangeError) or of
\* result[0] on the undefined result of an unknown type (TypeError).
binaryRead(dataview, at, type, little_endian) ==
    LET r == getBytes(dataview, TypeSize(type), at, little_endian)
    IN  IF TypeSize(type) = 0
        THEN [threw |-> "TypeError", value |-> Undefined, size |-> 0, log |-> <<>>]
        ELSE IF r.threw
        THEN [threw |-> "RangeError", value |-> Undefined, size |-> 0, log |-> <<>>]
        ELSE [threw |-> "", value |-> Decode(r.b, type), size |-> TypeSize(type),
              log |-> <<[at |-> r.at, size |-> r.size]>>]

(***************************************************************************)
(* binaryReadElement: [element, read], the reads it made, or the throw.    *)
(***************************************************************************)
RECURSIVE BinaryList(_, _, _, _, _, _, _, _)
BinaryList(dataview, at, read, n, itemType, little_endian, list, log) ==
    IF n = NaN \/ n = NonInteger \/ Len(list) >= n
    THEN [threw |-> "", list |-> list, read |-> read, log |-> log]
    ELSE LET result == binaryRead(dataview, at + read, itemType, little_endian)
         IN  IF result.threw # ""
             THEN [threw |-> result.threw, list |-> list, read |-> read, log |-> log]
             ELSE BinaryList(dataview, at, read + result.size, n, itemType,
                             little_endian, Append(list, result.value),
                             log \o result.log)

RECURSIVE BinaryProperties(_, _, _, _, _, _, _)
BinaryProperties(dataview, at, properties, little_endian, element, read, log) ==
    IF properties = <<>>
    THEN [threw |-> "", element |-> element, read |-> read, log |-> log]
    ELSE LET p == Head(properties)
             result == binaryRead(dataview, at + read,
                                  IF p.type = "list" THEN p.countType ELSE p.type,
                                  little_endian)
         IN  IF result.threw # ""
             THEN [threw |-> result.threw, element |-> element, read |-> read,
                   log |-> log]
             ELSE IF p.type = "list"
             THEN LET l == BinaryList(dataview, at, read + result.size, result.value,
                                      p.itemType, little_endian, <<>>,
                                      log \o result.log)
                  IN  IF l.threw # ""
                      THEN [threw |-> l.threw, element |-> element, read |-> l.read,
                            log |-> l.log]
                      ELSE BinaryProperties(dataview, at, Tail(properties),
                                            little_endian,
                                            PutList(element, p.name, l.list),
                                            l.read, l.log)
             ELSE BinaryProperties(dataview, at, Tail(properties), little_endian,
                                   PutScalar(element, p.name, result.value),
                                   read + result.size, log \o result.log)

binaryReadElement(dataview, at, properties, little_endian) ==
    BinaryProperties(dataview, at, properties, little_endian, EmptyObject, 0, <<>>)

(***************************************************************************)
(* The PLY inputs.  A file declares up to MaxElements elements, each of a  *)
(* different template and with a count up to MaxCount, and holds one       *)
(* record per declared instance, less the last "cut" ones (ASCII: lines,   *)
(* binary: bytes).  Record j (from 0) holds values derived from j; the     *)
(* first face record lists "arity" indices, a later one 3.  In the         *)
(* "diffuse" dialect the colour channels and the index list carry          *)
(* non-standard names.                                                     *)
(***************************************************************************)
Templates == {"xyz", "color", "face", "edge"}
Dialects == {"standard", "diffuse"}
Formats == {"ascii", "binary_little_endian", "binary_big_endian"}

EmptyMapping == [k \in {} |-> ""]
DiffuseMapping == [diffuse_red |-> "red", diffuse_green |-> "green",
                   diffuse_blue |-> "blue", vertex_index |-> "vertex_indices"]
Mappings == {EmptyMapping, DiffuseMapping}

TemplateName(t) == IF t \in {"xyz", "color"} THEN "vertex" ELSE t

PropsXYZ == << <<"property", "float", "x">>, <<"property", "float32", "y">>,
               <<"property", "double", "z">> >>

TemplateProperties(t, dialect) ==
    IF t = "xyz" THEN PropsXYZ
    ELSE IF t = "color"
    THEN PropsXYZ \o
         (IF dialect = "diffuse"
          THEN << <<"property", "uchar", "diffuse_red">>,
                  <<"property", "uint8", "diffuse_green">>,
                  <<"property", "uchar", "diffuse_blue">> >>
          ELSE << <<"property", "uchar", "red">>, <<"property", "uint8", "green">>,
                  <<"property", "uchar", "blue">> >>)
    ELSE IF t = "face"
    THEN << <<"property", "list", "uchar", "int",
              IF dialect = "diffuse" THEN "vertex_index" ELSE "vertex_indices">> >>
    ELSE << <<"property", "int32", "vertex1">>, <<"property", "ushort", "vertex2">> >>

DeclLines(decl, dialect) ==
    << <<"element", TemplateName(decl.tpl), Decimal[decl.count + 1]>> >>
        \o TemplateProperties(decl.tpl, dialect)

HeaderText(format, decls, dialect) ==
    << <<>>, <<"format", format, "1.0">>, <<"comment", "made", "by", "hand">>,
       <<"obj_info", "none">> >>
        \o Flatten([e \in 1..Len(decls) |-> DeclLines(decls[e], dialect)])
        \o << <<>> >>

\* The length of "ply" + the lines, each with its line break, + "end_header\n".
LineLength(line) ==
    IF line = <<>> THEN 0
    ELSE SeqSum([k \in 1..Len(line) |-> Len(line[k])]) + Len(line) - 1
TextLength(lines) ==
    3 + (SeqSum([k \in 1..Len(lines) |-> LineLength(lines[k]) + 1]) - 1) + 10 + 1

Counts(decls) == [e \in 1..Len(decls) |-> decls[e].count]
Total(decls) == SeqSum(Counts(decls))
\* The element whose declared range holds record i (from 1).
RECURSIVE Owner(_, _)
Owner(counts, i) ==
    IF counts = <<>> THEN 0
    ELSE IF i <= Head(counts) THEN 1
    ELSE LET o == Owner(Tail(counts), i - Head(counts))
         IN  IF o = 0 THEN 0 ELSE 1 + o
Owners(decls) == [i \in 1..Total(decls) |-> Owner(Counts(decls), i)]

AsciiRecord(t, j, arity) ==
    IF t = "xyz" THEN <<Decimal[j + 1], "1e1", "2">>
    ELSE IF t = "color" THEN <<Decimal[j + 1], "1e1", "2", "255", Decimal[j + 1], "128">>
    ELSE IF t = "face" THEN <<Decimal[arity + 1]>> \o [k \in 1..arity |-> Decimal[j + k]]
    ELSE <<Decimal[j + 1], Decimal[j + 2]>>

RECURSIVE Log2(_)
Log2(v) == IF v < 2 THEN 0 ELSE 1 + Log2(v \div 2)

\* The bytes of a value, first byte first.
EncodeInt(v, size, little) ==
    LET le == [k \in 1..size |-> (v \div Pow2(8 * (k - 1))) % 256]
    IN  IF little THEN le ELSE Reverse(le)
EncodeFloat32(v, little) ==
    EncodeInt(IF v = 0 THEN 0
              ELSE ((Log2(v) + 127) * 8388608) + ((v - Pow2(Log2(v))) * Pow2(23 - Log2(v))),
              4, little)
EncodeFloat64(v, little) ==
    LET e == Log2(v) + 1023
        high == (v - Pow2(Log2(v))) * Pow2(20 - Log2(v))
        le == IF v = 0 THEN <<0, 0, 0, 0, 0, 0, 0, 0>>
              ELSE <<0, 0, 0, 0, high % 256, (high \div 256) % 256,
                     ((e % 16) * 16) + (high \div 65536), e \div 16>>
    IN  IF little THEN le ELSE Reverse(le)

BinaryRecordBytes(t, j, arity, little) ==
    LET xyz == EncodeFloat32(j, little) \o EncodeFloat32(10, little)
                   \o EncodeFloat64(2, little)
    IN  IF t = "xyz" THEN xyz
        ELSE IF t = "color" THEN xyz \o <<255, j, 128>>
        ELSE IF t = "face"
        THEN <<arity>> \o Flatten([k \in 1..arity |-> EncodeInt(j + k - 1, 4, little)])
        ELSE EncodeInt(j, 4, little) \o EncodeInt(j + 1, 2, little)

DeclSeqsOf(n) ==
    {d \in [1..n -> [tpl : Templates, count : 0..MaxCount]] :
        \A a, b \in 1..n : a # b => d[a].tpl # d[b].tpl}
DeclSeqs(max) == UNION {DeclSeqsOf(n) : n \in 1..max}

HasTemplate(decls, t) == \E e \in 1..Len(decls) : decls[e].tpl = t

PlyInput(format, decls, dialect, mapping, arity, cut) ==
    LET owners == Owners(decls)
        n == Len(owners)
        text == HeaderText(format, decls, dialect)
        \* the first face record lists "arity" indices, the later ones 3
        arityOf == [i \in 1..n |->
                       IF i = 1 \/ owners[i - 1] # owners[i] THEN arity ELSE 3]
        records == [i \in 1..n |-> AsciiRecord(decls[owners[i]].tpl, i - 1, arityOf[i])]
        kept == IF cut >= n THEN <<>> ELSE SubSeq(records, 1, n - cut)
        bytes == Flatten([i \in 1..n |->
                     BinaryRecordBytes(decls[owners[i]].tpl, i - 1, arityOf[i],
                                       format = "binary_little_endian")])
    IN  [format |-> format, decls |-> decls, dialect |-> dialect, arity |-> arity,
         cut |-> cut, propertyNameMapping |-> mapping,
         headerLines |-> text, headerLength |-> TextLength(text),
         \* the body text split at line breaks: a blank line after the first
         \* record and the empty string after the last line break
         lines |-> IF format # "ascii" THEN <<>>
                   ELSE IF kept = <<>> THEN << <<>> >>
                   ELSE <<Head(kept), <<>> >> \o Tail(kept) \o << <<>> >>,
         buffer |-> [headerLength |-> TextLength(text),
                     payload |-> IF format = "ascii" THEN <<>>
                                 ELSE IF cut >= Len(bytes) THEN <<>>
                                 ELSE SubSeq(bytes, 1, Len(bytes) - cut)]]

HasFaces(decls) == \E e \in 1..Len(decls) : decls[e].tpl = "face" /\ decls[e].count > 0

\* Every layout of elements and counts, whole or cut short, in the standard
\* dialect with triangles.
LayoutParameters ==
    {<<f, d, "standard", EmptyMapping, 3, c>> :
        f \in Formats, d \in DeclSeqs(MaxElements), c \in 0..MaxCut}

\* Every dialect, mapping and face arity, on the whole files of up to
\* MaxContentElements elements that declare colours or faces.
ContentParameters ==
    {<<f, d, dl, m, a, 0>> :
        f \in Formats,
        d \in {x \in DeclSeqs(MaxContentElements) :
                  HasTemplate(x, "color") \/ HasTemplate(x, "face")},
        dl \in Dialects, m \in Mappings, a \in 0..MaxArity}

\* A parameter the file does not depend on stays at its default.
PlyParameters ==
    {p \in LayoutParameters \cup ContentParameters :
        /\ HasFaces(p[2]) \/ p[5] = 3
        /\ Total(p[2]) > 0 \/ p[6] = 0}

PlyInputs(parameters) ==
    {PlyInput(p[1], p[2], p[3], p[4], p[5], p[6]) : p \in parameters}

(***************************************************************************)
(* The decode call THREE.PLYLoader.prototype.parse(data), data an          *)
(* ArrayBuffer (load requests one).                                        *)
(***************************************************************************)
\* a >= b and a < b of JavaScript: false when b is NaN.
GreaterEqual(a, b) == b # NaN /\ a >= b
Less(a, b) == b # NaN /\ a < b

NoHeader == [comments |-> <<>>, elements |-> <<>>, headerLength |-> 0,
             format |-> "undefined", version |-> "undefined", threw |-> FALSE]

InitPLY ==
    /\ data \in PlyInputs(PlyParameters)
    /\ pc = "parse"
    /\ header = NoHeader
    /\ lineIdx = 1
    /\ currentElement = 1
    /\ currentElementCount = 0
    /\ loc = 0
    /\ geometry = NewGeometry
    /\ handled = <<>>
    /\ reads = <<>>
    /\ outcome = "running"
    /\ face = 0
    /\ faces = 0
    /\ lastIndex = 0
    /\ normal = <<>>
    /\ PageLoaded

Throw(error) ==
    /\ pc' = "done"
    /\ outcome' = error

\* parse: isASCII(data) parses the header and selects parseASCII or
\* parseBinary, which parses the header again and sets up its loop.
PlyParse ==
    /\ pc = "parse"
    /\ header' = parseHeader(data)
    /\ IF header'.threw THEN Throw("TypeError")
       ELSE /\ pc' = IF header'.format = "ascii" THEN "ascii" ELSE "binary"
            /\ outcome' = outcome
    /\ lineIdx' = 1
    /\ currentElement' = 1
    /\ currentElementCount' = 0
    /\ loc' = 0
    /\ geometry' = NewGeometry
    /\ UNCHANGED <<data, handled, reads>>
    /\ UNCHANGED <<stlVars, drawVars>>

\* One iteration of parseASCII's loop over the body lines.
AsciiLine ==
    /\ pc = "ascii"
    /\ lineIdx <= Len(data.lines)
    /\ LET line == data.lines[lineIdx]
           elements == header.elements
           known == currentElement \in 1..Len(elements)
           advance == known /\ GreaterEqual(currentElementCount,
                                            elements[currentElement].count)
           element == IF advance THEN currentElement + 1 ELSE currentElement
           count == IF advance THEN 0 ELSE currentElementCount
           record == parseASCIIElement(elements[element].properties, line)
           r == handleElement(geometry, elements[element].name, record)
       IN  IF line = <<>>
           THEN /\ lineIdx' = lineIdx + 1
                /\ UNCHANGED <<pc, outcome, currentElement, currentElementCount,
                               geometry, handled>>
           ELSE IF ~known \/ element > Len(elements)
           THEN /\ Throw("TypeError")
                /\ UNCHANGED <<lineIdx, currentElement, currentElementCount,
                               geometry, handled>>
           ELSE /\ handled' = Append(handled,
                                     [element |-> element,
                                      name |-> elements[element].name,
                                      record |-> record])
                /\ currentElement' = element
                /\ IF r.threw
                   THEN /\ Throw("TypeError")
                        /\ UNCHANGED <<lineIdx, currentElementCount, geometry>>
                   ELSE /\ geometry' = r.g
                        /\ currentElementCount' = count + 1
                        /\ lineIdx' = lineIdx + 1
                        /\ UNCHANGED <<pc, outcome>>
    /\ UNCHANGED <<data, header, loc, reads>>
    /\ UNCHANGED <<stlVars, drawVars>>

\* The end of parseASCII's loop: return this.postProcess(geometry).
AsciiReturn ==
    /\ pc = "ascii"
    /\ lineIdx > Len(data.lines)
    /\ geometry' = postProcess(geometry)
    /\ pc' = "done"
    /\ outcome' = "returned"
    /\ UNCHANGED <<data, header, lineIdx, currentElement, currentElementCount,
                   loc, handled, reads>>
    /\ UNCHANGED <<stlVars, drawVars>>

\* One iteration of parseBinary's inner loop: one record of the current element.
BinaryRecord ==
    /\ pc = "binary"
    /\ currentElement <= Len(header.elements)
    /\ Less(currentElementCount, header.elements[currentElement].count)
    /\ LET body == DataView(data.buffer, header.headerLength)
           little_endian == (header.format = "binary_little_endian")
           result == binaryReadElement(body, loc,
                                       header.elements[currentElement].properties,
                                       little_endian)
           r == handleElement(geometry, header.elements[currentElement].name,
                              result.element)
       IN  /\ reads' = reads \o result.log
           /\ IF result.threw # ""
              THEN /\ Throw(result.threw)
                   /\ UNCHANGED <<loc, geometry, handled, currentElementCount>>
              ELSE /\ loc' = loc + result.read
                   /\ handled' = Append(handled,
                                        [element |-> currentElement,
                                         name |-> header.elements[currentElement].name,
                                         record |-> result.element])
                   /\ IF r.threw
                      THEN /\ Throw("TypeError")
                           /\ UNCHANGED <<geometry, currentElementCount>>
                      ELSE /\ geometry' = r.g
                           /\ currentElementCount' = currentElementCount + 1
                           /\ UNCHANGED <<pc, outcome>>
    /\ UNCHANGED <<data, header, lineIdx, currentElement>>
    /\ UNCHANGED <<stlVars, drawVars>>

\* The end of the inner loop: the outer loop moves to the next element.
BinaryNextElement ==
    /\ pc = "binary"
    /\ currentElement <= Len(header.elements)
    /\ ~Less(currentElementCount, header.elements[currentElement].count)
    /\ currentElement' = currentElement + 1
    /\ currentElementCount' = 0
    /\ UNCHANGED <<data, pc, header, lineIdx, loc, geometry, handled, reads, outcome>>
    /\ UNCHANGED <<stlVars, drawVars>>

\* The end of the outer loop: return this.postProcess(geometry).
BinaryReturn ==
    /\ pc = "binary"
    /\ currentElement > Len(header.elements)
    /\ geometry' = postProcess(geometry)
    /\ pc' = "done"
    /\ outcome' = "returned"
    /\ UNCHANGED <<data, header, lineIdx, currentElement, currentElementCount,
                   loc, handled, reads>>
    /\ UNCHANGED <<stlVars, drawVars>>

NextPLY ==
    \/ PlyParse
    \/ AsciiLine
    \/ AsciiReturn
    \/ BinaryRecord
    \/ BinaryNextElement
    \/ BinaryReturn

SpecPLY == InitPLY /\ [][NextPLY]_vars

(***************************************************************************)
(* THREE.STLLoader.  The input is a buffer of bytes (load requests an      *)
(* ArrayBuffer; ensureBinary and ensureString turn bytes into characters   *)
(* and back one to one), indexed from 0 in the definitions below.          *)
(***************************************************************************)
MaxTriangles == 2
MaxDelta == 1
MaxBlocks == 2
MaxVertexLines == 4

Byte(b, i) == IF i >= 0 /\ i < Len(b) THEN b[i + 1] ELSE 0
Slice(b, from, to) == [k \in 1..(to - from) |-> b[from + k]]
Min(S) == CHOOSE x \in S : \A y \in S : x <= y

\* reader.getUint32(at, true), kept at 2^24 from there on: a count the
\* buffers of the model are all too short for.
Uint32LE(b, at) ==
    IF Byte(b, at + 3) # 0 THEN 16777216
    ELSE Byte(b, at + 2) * 65536 + Byte(b, at + 1) * 256 + Byte(b, at)

\* isBinary of parse, for a buffer that holds the count at offset 80.
isBinary(binData) ==
    LET face_size == (32 \div 8) * 3 + ((32 \div 8) * 3) * 3 + (16 \div 8)
        n_faces == Uint32LE(binData, 80)
        expect == 80 + (32 \div 8) + (n_faces * face_size)
    IN  IF expect = Len(binData) THEN TRUE
        ELSE \E index \in 0..(Len(binData) - 1) : Byte(binData, index) > 127

\* The header scan of parseBinary: the default colour of the last "COLOR="
\* found, each channel over 255.
COLO == <<67, 79, 76, 79>>
IsColorAt(b, index) ==
    /\ Byte(b, index) = COLO[1]
    /\ Slice(b, index, index + 4) = COLO
    /\ Byte(b, index + 4) = 82
    /\ Byte(b, index + 5) = 61
ColorIndexes(b) == {index \in 0..(80 - 10 - 1) : IsColorAt(b, index)}
Max(S) == CHOOSE x \in S : \A y \in S : x >= y
DefaultColor(b) ==
    LET index == Max(ColorIndexes(b))
    IN  [r |-> <<Byte(b, index + 6), 255>>, g |-> <<Byte(b, index + 7), 255>>,
         b |-> <<Byte(b, index + 8), 255>>, alpha |-> <<Byte(b, index + 9), 255>>]

\* The colour of a face with the default colour of the header taken for a
\* clear bit 15.
FaceColorOfClearBit(packedColor, default) ==
    IF (packedColor \div 32768) % 2 # 0
    THEN <<<<packedColor % 32, 31>>, <<(packedColor \div 32) % 32, 31>>,
           <<(packedColor \div 1024) % 32, 31>>>>
    ELSE <<default.r, default.g, default.b>>

\* r, g, b of a face from its packed colour.
FaceColor(packedColor, default) ==
    IF (packedColor \div 32768) % 2 = 0
    THEN <<<<packedColor % 32, 31>>, <<(packedColor \div 32) % 32, 31>>,
           <<(packedColor \div 1024) % 32, 31>>>>
    ELSE <<default.r, default.g, default.b>>

Float32LE(b, at) == getFloat32(Slice(b, at, at + 4))
Vector(b, at) == <<Float32LE(b, at), Float32LE(b, at + 4), Float32LE(b, at + 8)>>

(***************************************************************************)
(* The regular expressions of parseASCII, on the bytes of the text.  The   *)
(* number literals of the model's texts are single well-formed literals    *)
(* followed by white space, on which one greedy repetition of a number     *)
(* group is the match of the expression.                                   *)
(***************************************************************************)
Facet == <<102, 97, 99, 101, 116>>
EndFacet == <<101, 110, 100>> \o Facet
NormalWord == <<110, 111, 114, 109, 97, 108>>
VertexWord == <<118, 101, 114, 116, 101, 120>>

MatchesAt(t, i, word) ==
    /\ i + Len(word) <= Len(t)
    /\ Byte(t, i) = word[1]
    /\ Slice(t, i, i + Len(word)) = word
IsSpace(c) == c \in {9, 10, 11, 12, 13, 32, 160}
IsDigit(c) == c >= 48 /\ c <= 57
IsSign(c) == c \in {43, 45}

RECURSIVE SpacesEnd(_, _)
SpacesEnd(t, i) == IF i < Len(t) /\ IsSpace(Byte(t, i)) THEN SpacesEnd(t, i + 1) ELSE i
RECURSIVE DigitsEnd(_, _)
DigitsEnd(t, i) == IF i < Len(t) /\ IsDigit(Byte(t, i)) THEN DigitsEnd(t, i + 1) ELSE i
SignEnd(t, i) == IF i < Len(t) /\ IsSign(Byte(t, i)) THEN i + 1 ELSE i

\* ([eE][\-+]?[0-9]+)? from i: where it ends.
ExponentEnd(t, i) ==
    IF i < Len(t) /\ Byte(t, i) \in {101, 69}
           /\ DigitsEnd(t, SignEnd(t, i + 1)) > SignEnd(t, i + 1)
    THEN DigitsEnd(t, SignEnd(t, i + 1))
    ELSE i

\* [\-+]?[0-9]+\.?[0-9]*([eE][\-+]?[0-9]+)? from i: where it ends, -1 for no match.
FirstNumberEnd(t, i) ==
    LET d == DigitsEnd(t, SignEnd(t, i))
        f == IF d < Len(t) /\ Byte(t, d) = 46 THEN DigitsEnd(t, d + 1) ELSE d
    IN  IF d = SignEnd(t, i) THEN -1 ELSE ExponentEnd(t, f)

\* [\-+]?[0-9]*\.?[0-9]+([eE][\-+]?[0-9]+)? from i: where it ends, -1 for no match.
NumberEnd(t, i) ==
    LET d == DigitsEnd(t, SignEnd(t, i))
    IN  IF d < Len(t) /\ Byte(t, d) = 46 /\ DigitsEnd(t, d + 1) > d + 1
        THEN ExponentEnd(t, DigitsEnd(t, d + 1))
        ELSE IF d > SignEnd(t, i) THEN ExponentEnd(t, d)
        ELSE -1

RECURSIVE DigitsValue(_, _, _, _)
DigitsValue(t, i, end, acc) ==
    IF i >= end THEN acc ELSE DigitsValue(t, i + 1, end, acc * 10 + (Byte(t, i) - 48))
RECURSIVE Pow10(_)
Pow10(n) == IF n <= 0 THEN 1 ELSE 10 * Pow10(n - 1)

\* parseFloat of the literal t[from..to), whose integer digits end at d and
\* whose fraction ends at f.
LiteralValue(t, from, to, d, f) ==
    LET sign == IF Byte(t, from) = 45 THEN -1 ELSE 1
        whole == DigitsValue(t, SignEnd(t, from), d, 0)
        fraction == IF f > d THEN DigitsValue(t, d + 1, f, 0) ELSE 0
        exponent == IF f < to
                    THEN (IF Byte(t, f + 1) = 45 THEN -1 ELSE 1)
                             * DigitsValue(t, SignEnd(t, f + 1), to, 0)
                    ELSE 0
    IN  IF fraction # 0 THEN NonInteger
        ELSE IF exponent < 0 THEN (IF whole = 0 THEN 0 ELSE NonInteger)
        ELSE sign * whole * Pow10(exponent)
FractionEnd(t, d, to) == IF d < to /\ Byte(t, d) = 46 THEN DigitsEnd(t, d + 1) ELSE d
LiteralFrom(t, from, to, d) == LiteralValue(t, from, to, d, FractionEnd(t, d, to))
parseFloatLiteral(t, from, to) == LiteralFrom(t, from, to, DigitsEnd(t, SignEnd(t, from)))

\* [\s]+(number)+ k times from i, the first number of three in the first
\* form: the numbers and where the match ends, end = -1 for no match.
NoTriple == [end |-> -1, v |-> <<>>]
RECURSIVE Numbers(_, _, _)
NumberTo(t, i, a, e, k) ==
    IF a = i \/ e = -1 \/ Numbers(t, e, k - 1).end = -1 THEN NoTriple
    ELSE [end |-> Numbers(t, e, k - 1).end,
          v |-> <<parseFloatLiteral(t, a, e)>> \o Numbers(t, e, k - 1).v]
NumberAt(t, i, a, k) ==
    NumberTo(t, i, a, IF k = 3 THEN FirstNumberEnd(t, a) ELSE NumberEnd(t, a), k)
Numbers(t, i, k) ==
    IF k = 0 THEN [end |-> i, v |-> <<>>] ELSE NumberAt(t, i, SpacesEnd(t, i), k)

\* word[\s]+(number)+[\s]+(number)+[\s]+(number)+ at i.
TripleAt(t, i, word) ==
    IF MatchesAt(t, i, word) THEN Numbers(t, i + Len(word), 3) ELSE NoTriple

\* The matches of the global expression in t from i on, in order.
RECURSIVE Triples(_, _, _)
TriplesAfter(t, word, match) == <<match.v>> \o Triples(t, match.end, word)
TriplesFrom(t, word, starts) ==
    IF starts = {} THEN <<>> ELSE TriplesAfter(t, word, TripleAt(t, Min(starts), word))
Triples(t, i, word) ==
    TriplesFrom(t, word, {k \in i..(Len(t) - 1) : TripleAt(t, k, word).end # -1})

\* patternFace.exec(data) from lastIndex: /facet([\s\S]*?)endfacet/g. The
\* match starts at the first "facet" that an "endfacet" follows.
FacetEnds(t, i) == {j \in (i + 5)..(Len(t) - 1) : MatchesAt(t, j, EndFacet)}
FacetStarts(t, from) ==
    {i \in from..(Len(t) - 1) : MatchesAt(t, i, Facet) /\ FacetEnds(t, i) # {}}
FacetTo(t, i, j) == [text |-> Slice(t, i, j + 8), lastIndex |-> j + 8]
FacetFrom(t, i) == FacetTo(t, i, Min(FacetEnds(t, i)))
FacetMatch(t, from) == FacetFrom(t, Min(FacetStarts(t, from)))

Face3WithNormal(a, b, c, n) == [a |-> a, b |-> b, c |-> c, normal |-> n]

\* The face pushed for a block, whatever the number of its vertices.
BlockFace(length, n) == Face3WithNormal(length - 3, length - 2, length - 1, n)

(***************************************************************************)
(* The STL files of the model.  A binary file is the 80-byte header, the   *)
(* count and the triangles; its count may exceed the triangles present and *)
(* its last byte may be cut off.  An ASCII file is "solid", the facet      *)
(* blocks and "endsolid".                                                  *)
(***************************************************************************)
Filler(n) == [k \in 1..n |-> 32]
ColorSignature(rgba) == COLO \o <<82, 61>> \o rgba

\* The 80-byte header, with the signature at colorAt (-1 for none).
StlHeader(colorAt, rgba) ==
    IF colorAt < 0 THEN Filler(80)
    ELSE Filler(colorAt) \o ColorSignature(rgba) \o Filler(80 - 10 - colorAt)

\* Triangle t: normal, three vertices, attribute bytes.
TriangleBytes(t, packed, high) ==
    LET c == IF high THEN 1 ELSE 2
    IN  Flatten(<<EncodeFloat32(0, TRUE), EncodeFloat32(0, TRUE), EncodeFloat32(c, TRUE),
                  EncodeFloat32(t, TRUE), EncodeFloat32(0, TRUE), EncodeFloat32(0, TRUE),
                  EncodeFloat32(c, TRUE), EncodeFloat32(t, TRUE), EncodeFloat32(0, TRUE),
                  EncodeFloat32(0, TRUE), EncodeFloat32(c, TRUE), EncodeFloat32(t, TRUE),
                  EncodeInt(packed, 2, TRUE)>>)

CutOff(b, cut) == SubSeq(b, 1, Len(b) - cut)

\* The packed colour of triangle t of a file: bit 15 alternates.
PackedOf(packed, t) == (packed + t * 32768) % 65536

BinaryStl(n, delta, colorAt, rgba, packed, high, cut) ==
    [kind |-> "binary", triangles |-> n, declared |-> n + delta, colorAt |-> colorAt,
     rgba |-> rgba, packed |-> [t \in 1..n |-> PackedOf(packed, t - 1)], cut |-> cut,
     blocks |-> <<>>,
     bytes |-> CutOff(StlHeader(colorAt, rgba) \o EncodeInt(n + delta, 4, TRUE)
                          \o Flatten([t \in 1..n |->
                                 TriangleBytes(t - 1, PackedOf(packed, t - 1), high)]),
                      cut)]

Newline == <<10>>
Space == <<32>>
Solid == <<115, 111, 108, 105, 100>>
OuterLoop == <<111, 117, 116, 101, 114, 32, 108, 111, 111, 112>>
EndLoop == <<101, 110, 100, 108, 111, 111, 112>>

\* The literals of the ASCII files: "0", "1", "-2", "1.0", "1e1", "+3".
Literals == <<<<48>>, <<49>>, <<45, 50>>, <<49, 46, 48>>, <<49, 101, 49>>, <<43, 51>>>>
Literal(k) == Literals[(k % Len(Literals)) + 1]

\* "vertex x y z" of vertex v of block k.
VertexLine(k, v) ==
    VertexWord \o Space \o Literal(k + v) \o Space \o Literal(v) \o Space
        \o Literal(k) \o Newline

\* A facet block with its normal line (if any) and vertexLines vertex lines.
Block(k, withNormal, vertexLines) ==
    Facet \o (IF withNormal
              THEN Space \o NormalWord \o Space \o Literal(0) \o Space \o Literal(0)
                       \o Space \o Literal(k + 1)
              ELSE <<>>)
        \o Newline \o OuterLoop \o Newline
        \o Flatten([v \in 1..vertexLines |-> VertexLine(k, v)])
        \o EndLoop \o Newline \o EndFacet \o Newline

AsciiStl(blocks, withNormal, nameLength) ==
    [kind |-> "ascii", triangles |-> 0, declared |-> 0, colorAt |-> -1,
     rgba |-> <<>>, packed |-> <<>>, cut |-> 0, blocks |-> blocks,
     bytes |-> Solid \o Space \o [k \in 1..nameLength |-> 97] \o Newline
                   \o Flatten([k \in 1..Len(blocks) |->
                                  Block(k, withNormal \/ k > 1, blocks[k])])
                   \o <<101, 110, 100>> \o Solid \o Newline]

ColorOffsets == {-1, 0, 69, 70}
Rgbas == {<<255, 0, 0, 255>>, <<10, 20, 30, 128>>}
Packeds == {0, 3137, 992, 31744, 32768, 33791}
NameLengths == {1, 60}

BlockSeqs == UNION {[1..n -> 0..MaxVertexLines] : n \in 0..MaxBlocks}

StlInputs ==
    {BinaryStl(n, delta, colorAt, rgba, packed, high, cut) :
        n \in 0..MaxTriangles, delta \in 0..MaxDelta, colorAt \in ColorOffsets,
        rgba \in Rgbas, packed \in Packeds, high \in BOOLEAN, cut \in 0..MaxCut}
    \cup {AsciiStl(blocks, withNormal, nameLength) :
             blocks \in BlockSeqs, withNormal \in BOOLEAN, nameLength \in NameLengths}

(***************************************************************************)
(* One STL decode call.                                                    *)
(***************************************************************************)
InitSTL ==
    /\ data \in StlInputs
    /\ pc = "parse"
    /\ header = NoHeader
    /\ lineIdx = 1
    /\ currentElement = 1
    /\ currentElementCount = 0
    /\ loc = 0
    /\ geometry = NewGeometry
    /\ handled = <<>>
    /\ reads = <<>>
    /\ outcome = "running"
    /\ face = 0
    /\ faces = 0
    /\ lastIndex = 0
    /\ normal = <<>>
    /\ PageLoaded

HasColors(b) == ColorIndexes(b) # {}

\* parse: isBinary reads the count at offset 80 before anything else; then
\* parseBinary (count, header scan) or parseASCII starts.
StlParse ==
    /\ pc = "parse"
    /\ IF OutOfBounds(4, 80, Len(data.bytes))
       THEN /\ Throw("RangeError")
            /\ UNCHANGED <<geometry, faces>>
       ELSE IF isBinary(data.bytes)
       THEN /\ pc' = "parseBinary"
            /\ faces' = Uint32LE(data.bytes, 80)
            /\ geometry' = [vertices |-> <<>>, normals |-> <<>>, colors |-> <<>>,
                            hasColors |-> FALSE, alpha |-> <<>>]
            /\ outcome' = outcome
       ELSE /\ pc' = "parseASCII"
            /\ geometry' = [vertices |-> <<>>, faces |-> <<>>]
            /\ UNCHANGED <<outcome, faces>>
    /\ UNCHANGED <<data, handled, face, lastIndex, normal>>
    /\ UNCHANGED <<header, lineIdx, currentElement, currentElementCount, loc, reads,
                   drawVars>>

\* The reads of one iteration of the face loop, in program order.
FaceReads(start, hasColors) ==
    <<[at |-> start, size |-> 4], [at |-> start + 4, size |-> 4],
      [at |-> start + 8, size |-> 4]>>
        \o (IF hasColors THEN <<[at |-> start + 48, size |-> 2]>> ELSE <<>>)
        \o [k \in 1..9 |-> [at |-> start + 12 + (k - 1) * 4, size |-> 4]]

\* One iteration of the face loop of parseBinary.
StlBinaryFace ==
    /\ pc = "parseBinary"
    /\ face < faces
    /\ LET b == data.bytes
           start == 84 + face * (12 * 4 + 2)
           hasColors == HasColors(b)
           log == FaceReads(start, hasColors)
           n == Vector(b, start)
           packedColor == getUint16(Slice(b, start + 48, start + 50))
           rgb == FaceColor(packedColor, DefaultColor(b))
       IN  IF \E k \in 1..Len(log) : OutOfBounds(log[k].size, log[k].at, Len(b))
           THEN /\ Throw("RangeError")
                /\ UNCHANGED <<geometry, handled, face>>
           ELSE /\ geometry' =
                      [geometry EXCEPT
                         !.vertices = @ \o [i \in 1..3 |-> Vector(b, start + i * 12)],
                         !.normals = @ \o <<n, n, n>>,
                         !.colors = IF hasColors THEN @ \o <<rgb, rgb, rgb>> ELSE @]
                /\ handled' = Append(handled, [face |-> face, start |-> start])
                /\ face' = face + 1
                /\ UNCHANGED <<pc, outcome>>
    /\ UNCHANGED <<data, faces, lastIndex, normal>>
    /\ UNCHANGED <<header, lineIdx, currentElement, currentElementCount, loc, reads,
                   drawVars>>

\* The end of the face loop: the attributes are added and the geometry returned.
StlBinaryReturn ==
    /\ pc = "parseBinary"
    /\ face >= faces
    /\ geometry' = IF HasColors(data.bytes)
                   THEN [geometry EXCEPT !.hasColors = TRUE,
                                         !.alpha = DefaultColor(data.bytes).alpha]
                   ELSE geometry
    /\ pc' = "done"
    /\ outcome' = "returned"
    /\ UNCHANGED <<data, handled, face, faces, lastIndex, normal>>
    /\ UNCHANGED <<header, lineIdx, currentElement, currentElementCount, loc, reads,
                   drawVars>>

\* The loop body of parseASCII on a facet block: its text, the normals
\* and the vertices the expressions find in it.
FacetBlock(result, normals, vertices) ==
    /\ normal' = IF normals = <<>> THEN normal ELSE normals[Len(normals)]
    /\ geometry' = [geometry EXCEPT
                       !.vertices = @ \o vertices,
                       !.faces = Append(@, BlockFace(Len(geometry.vertices)
                                                        + Len(vertices), normal'))]
    /\ handled' = Append(handled, [first |-> Len(geometry.vertices),
                                   count |-> Len(vertices)])
    /\ lastIndex' = result.lastIndex

FacetText(result) ==
    FacetBlock(result, Triples(result.text, 0, NormalWord),
               Triples(result.text, 0, VertexWord))

\* One iteration of the loop of parseASCII: the next facet block.
StlAsciiFacet ==
    /\ pc = "parseASCII"
    /\ FacetStarts(data.bytes, lastIndex) # {}
    /\ FacetText(FacetMatch(data.bytes, lastIndex))
    /\ UNCHANGED <<data, pc, outcome, face, faces>>
    /\ UNCHANGED <<header, lineIdx, currentElement, currentElementCount, loc, reads,
                   drawVars>>

\* patternFace.exec returns null: the geometry is returned.
StlAsciiReturn ==
    /\ pc = "parseASCII"
    /\ FacetStarts(data.bytes, lastIndex) = {}
    /\ pc' = "done"
    /\ outcome' = "returned"
    /\ UNCHANGED <<data, geometry, handled, face, faces, lastIndex, normal>>
    /\ UNCHANGED <<header, lineIdx, currentElement, currentElementCount, loc, reads,
                   drawVars>>

NextSTL ==
    \/ StlParse
    \/ StlBinaryFace
    \/ StlBinaryReturn
    \/ StlAsciiFacet
    \/ StlAsciiReturn

SpecSTL == InitSTL /\ [][NextSTL]_vars

(***************************************************************************)
(* The two regular expressions of THREE.PLYLoader on the text of a file:   *)
(* patternHeader of parseHeader and patternBody of parseASCII.  The text   *)
(* is the bytes of the input (bin2str), indexed from 0.                    *)
(***************************************************************************)
MaxBodyLines == 2

Ply == <<112, 108, 121>>
EndHeader == <<101, 110, 100, 95, 104, 101, 97, 100, 101, 114>>

\* end_header\s at i.
EndHeaderAt(t, i) ==
    MatchesAt(t, i, EndHeader) /\ i + 10 < Len(t) /\ IsSpace(Byte(t, i + 10))
EndHeadersFrom(t, i) == {j \in i..(Len(t) - 1) : EndHeaderAt(t, j)}

\* patternHeader.exec(data), /ply([\s\S]*)end_header\s/: the first "ply" that
\* an end_header\s follows, the group as long as it can be.
PlyStarts(t) == {i \in 0..(Len(t) - 1) : MatchesAt(t, i, Ply) /\ EndHeadersFrom(t, i + 3) # {}}
HeaderResult(index, last) ==
    [matched |-> TRUE, from |-> index + 3, to |-> last, headerLength |-> last + 11 - index]
HeaderFrom(t, index) == HeaderResult(index, Max(EndHeadersFrom(t, index + 3)))
patternHeader(t) ==
    IF PlyStarts(t) = {}
    THEN [matched |-> FALSE, from |-> 0, to |-> 0, headerLength |-> 0]
    ELSE HeaderFrom(t, Min(PlyStarts(t)))

\* patternBody.exec(data), /end_header\s([\s\S]*)$/: where the group starts,
\* the end of the text (body = "") when there is no match.
patternBody(t) ==
    IF EndHeadersFrom(t, 0) = {} THEN Len(t) ELSE Min(EndHeadersFrom(t, 0)) + 11

\* The texts: something before the magic or not, line breaks LF or CR LF,
\* a comment and a body line that hold "end_header " or not, the
\* terminating line or not, up to MaxBodyLines body lines.
LF == <<10>>
CRLF == <<13, 10>>
Junk == <<120>>
FormatLine == <<102, 111, 114, 109, 97, 116, 32, 97>>
CommentLine(trap) ==
    <<99, 32>> \o (IF trap THEN EndHeader \o <<32>> ELSE <<>>) \o <<120>>
BodyLine(k, trap) ==
    IF trap /\ k = 1 THEN EndHeader \o <<32, 49>> ELSE <<48 + k>>

TextInput(junk, eol, commentTrap, bodyTrap, terminated, bodyLines) ==
    [junk |-> junk, eol |-> eol, commentTrap |-> commentTrap, bodyTrap |-> bodyTrap,
     terminated |-> terminated, bodyLines |-> bodyLines,
     head |-> (IF junk THEN Junk \o eol ELSE <<>>) \o Ply \o eol \o FormatLine \o eol
                  \o CommentLine(commentTrap) \o eol,
     bytes |-> (IF junk THEN Junk \o eol ELSE <<>>) \o Ply \o eol \o FormatLine \o eol
                   \o CommentLine(commentTrap) \o eol
                   \o (IF terminated THEN EndHeader \o eol ELSE <<>>)
                   \o Flatten([k \in 1..bodyLines |-> BodyLine(k, bodyTrap) \o eol])]

TextInputs ==
    {TextInput(junk, eol, commentTrap, bodyTrap, terminated, bodyLines) :
        junk \in BOOLEAN, eol \in {LF, CRLF}, commentTrap \in BOOLEAN,
        bodyTrap \in BOOLEAN, terminated \in BOOLEAN, bodyLines \in 0..MaxBodyLines}

InitText ==
    /\ data \in TextInputs
    /\ pc = "parseHeader"
    /\ header = NoHeader
    /\ lineIdx = 1
    /\ currentElement = 1
    /\ currentElementCount = 0
    /\ loc = 0
    /\ geometry = NewGeometry
    /\ handled = <<>>
    /\ reads = <<>>
    /\ outcome = "running"
    /\ face = 0
    /\ faces = 0
    /\ lastIndex = 0
    /\ normal = <<>>
    /\ PageLoaded

\* parseHeader: headerText and headerLength from patternHeader.
HeaderExec ==
    /\ pc = "parseHeader"
    /\ header' = patternHeader(data.bytes)
    /\ pc' = "patternBody"
    /\ UNCHANGED <<data, lineIdx, currentElement, currentElementCount, loc, geometry,
                   handled, reads, outcome>>
    /\ UNCHANGED <<stlVars, drawVars>>

\* parseASCII: body from patternBody; loc is where the body starts.
BodyExec ==
    /\ pc = "patternBody"
    /\ loc' = patternBody(data.bytes)
    /\ pc' = "done"
    /\ outcome' = "returned"
    /\ UNCHANGED <<data, header, lineIdx, currentElement, currentElementCount, geometry,
                   handled, reads>>
    /\ UNCHANGED <<stlVars, drawVars>>

NextText ==
    \/ HeaderExec
    \/ BodyExec

SpecText == InitText /\ [][NextText]_vars

(***************************************************************************)
(* main.js: the event handlers of the line drawing.  A mousemove hits the  *)
(* cube or not (the ray cast); the decoders take no part.                  *)
(***************************************************************************)
MaxLines == 3
maxCounter == 4
maxPoints == 50

InitDraw ==
    /\ data = <<>>
    /\ pc = "done"
    /\ header = NoHeader
    /\ lineIdx = 1
    /\ currentElement = 1
    /\ currentElementCount = 0
    /\ loc = 0
    /\ geometry = NewGeometry
    /\ handled = <<>>
    /\ reads = <<>>
    /\ outcome = "running"
    /\ face = 0
    /\ faces = 0
    /\ lastIndex = 0
    /\ normal = <<>>
    /\ PageLoaded

\* The mousedown listener: a new line of maxPoints vertices becomes the
\* current line.
MouseDown ==
    /\ currentLine < MaxLines
    /\ isMouseDown' = TRUE
    /\ currentLine' = currentLine + 1
    /\ theLine' = NoLine
    /\ UNCHANGED <<isAddingPoints, markCounter, currentPoint, write>>
    /\ UNCHANGED <<plyVars, stlVars>>

\* The mouseup listener.
MouseUp ==
    /\ isMouseDown' = FALSE
    /\ currentPoint' = 0
    /\ UNCHANGED <<isAddingPoints, markCounter, currentLine, theLine, write>>
    /\ UNCHANGED <<plyVars, stlVars>>

\* The click listener of the button.
ButtonClick ==
    /\ isAddingPoints' = ~isAddingPoints
    /\ UNCHANGED <<isMouseDown, markCounter, currentPoint, currentLine, theLine, write>>
    /\ UNCHANGED <<plyVars, stlVars>>

\* line.geometry.vertices[currentPoint].set(...) on the current line, after
\* line.position.set(...) when currentPoint is 0.
SetVertex(l, index) ==
    [count |-> l.count + 1,
     first |-> IF l.first = -1 THEN index ELSE l.first,
     last |-> index,
     positioned |-> l.positioned \/ index = 0]

\* onMouseMove.  vertices[currentPoint] is undefined from maxPoints on: the
\* call of set on it throws and the handler ends there.
MouseMove(hit) ==
    /\ IF isAddingPoints /\ isMouseDown /\ markCounter = maxCounter
            /\ currentPoint <= maxPoints
       THEN IF hit
            THEN /\ write' = currentPoint
                 /\ IF currentPoint < maxPoints
                    THEN /\ theLine' = SetVertex(theLine, currentPoint)
                         /\ currentPoint' = currentPoint + 1
                         /\ markCounter' = 0
                    ELSE UNCHANGED <<theLine, currentPoint, markCounter>>
            ELSE /\ markCounter' = 0
                 /\ UNCHANGED <<theLine, currentPoint, write>>
       ELSE IF isMouseDown /\ markCounter < maxCounter
       THEN /\ markCounter' = markCounter + 1
            /\ UNCHANGED <<theLine, currentPoint, write>>
       ELSE UNCHANGED <<theLine, currentPoint, write, markCounter>>
    /\ UNCHANGED <<isMouseDown, isAddingPoints, currentLine>>
    /\ UNCHANGED <<plyVars, stlVars>>

NextDraw ==
    \/ MouseDown
    \/ MouseUp
    \/ ButtonClick
    \/ \E hit \in BOOLEAN : MouseMove(hit)

SpecDraw == InitDraw /\ [][NextDraw]_vars

(***************************************************************************)
(* Properties of the PLY decode call.                                      *)
(***************************************************************************)
IsAscii == data.format = "ascii"
Returned == pc = "done" /\ outcome = "returned"
Threw == pc = "done" /\ outcome # "returned"
\* The index list of a handled face record, <<>> for another record.
IsFace(h) == h.name = "face" /\ "vertex_indices" \in DOMAIN h.record.lists
IndexList(h) == IF IsFace(h) THEN h.record.lists["vertex_indices"] ELSE <<>>
NonBlank(lines) == Cardinality({i \in 1..Len(lines) : lines[i] # <<>>})

\* C1: when the body holds exactly the declared records, the i-th record is
\* handed to handleElement under the element whose declared range holds i,
\* and a returned decode has handed over exactly the declared records.
C1_RecordsGoToTheirElement ==
    data.cut = 0 =>
        /\ \A i \in 1..Len(handled) :
              /\ i <= Total(data.decls)
              /\ handled[i].element = Owners(data.decls)[i]
        /\ Returned => Len(handled) = Total(data.decls)

\* C2: an ASCII decode of a body with fewer non-blank lines than the sum of
\* the declared counts ends in an error and returns no mesh.
C2_TruncatedAsciiFails ==
    (IsAscii /\ NonBlank(data.lines) < Total(data.decls) /\ pc = "done")
        => outcome # "returned"

\* C3: the face list is the triangles of the handled face records in order:
\* (a,b,c) for an index list [a,b,c], (a,b,d) then (b,c,d) for [a,b,c,d], and
\* nothing for any other record.
Triangles(l) ==
    IF Len(l) = 3 THEN << <<l[1], l[2], l[3]>> >>
    ELSE IF Len(l) = 4 THEN << <<l[1], l[2], l[4]>>, <<l[2], l[3], l[4]>> >>
    ELSE <<>>
C3_FaceListIsTheTriangles ==
    geometry.faces =
        Flatten([i \in 1..Len(handled) |-> Triangles(IndexList(handled[i]))])
C3_QuadSplit ==
    /\ Returned
    /\ \E i \in 1..Len(handled) : Len(IndexList(handled[i])) = 4
    /\ \E i \in 1..Len(handled) : Len(IndexList(handled[i])) = 3
    /\ Len(geometry.faces) >= 3

\* C4: a face record whose index list has a length other than 3 or 4 ends
\* the decode in an error: it is not dropped while decoding goes on or
\* returns a mesh.
C4_BadArityFails ==
    (\E i \in 1..Len(handled) :
        IsFace(handled[i]) /\ Len(IndexList(handled[i])) \notin {3, 4})
        => Threw

\* C7: each parsed property has the declared type, countType and itemType,
\* and the mapped name when its declared name is a key of the mapping, else
\* its declared name; a decoded record has the parsed names as its keys; and
\* a file in the diffuse dialect decoded under the mapping to the standard
\* names has the schema of the same file in the standard dialect, and its
\* colour records colour the mesh.
Declared(e) == TemplateProperties(data.decls[e].tpl, data.dialect)
Mapped(name) ==
    IF name \in DOMAIN data.propertyNameMapping
    THEN data.propertyNameMapping[name] ELSE name
PropertyAsDeclared(p, line) ==
    IF line[2] = "list"
    THEN /\ p.type = "list"
         /\ p.countType = line[3]
         /\ p.itemType = line[4]
         /\ p.name = Mapped(line[5])
    ELSE /\ p.type = line[2]
         /\ DOMAIN p = {"type", "name"}
         /\ p.name = Mapped(line[3])
StandardTwin ==
    PlyInput(data.format, data.decls, "standard", data.propertyNameMapping,
             data.arity, data.cut)
VertexRecords == {i \in 1..Len(handled) : handled[i].name = "vertex"}
C8_ColourAllOrNothing ==
    Returned =>
        /\ geometry.useColor =>
              /\ \A i \in VertexRecords : HasColor(handled[i].record)
              /\ Len(geometry.colors) = Len(geometry.vertices)
        /\ (\E i \in VertexRecords : ~HasColor(handled[i].record)) =>
              /\ ~geometry.useColor
              /\ geometry.colors = <<>>

\* C9: the reads of a binary decode start at headerLength, each starts
\* where the one before ended, and none ends past the buffer; the cursor is
\* at the end of the last read; and a payload cut short ends the decode in
\* the out-of-bounds error, with no mesh.
EndOfReads ==
    IF reads = <<>> THEN header.headerLength
    ELSE reads[Len(reads)].at + reads[Len(reads)].size
C9_ReadsStayInBuffer ==
    ~IsAscii =>
        /\ \A k \in 1..Len(reads) :
              /\ reads[k].at = IF k = 1 THEN data.headerLength
                                ELSE reads[k - 1].at + reads[k - 1].size
              /\ reads[k].at + reads[k].size <= ByteLength(data.buffer)
        /\ pc = "binary" => header.headerLength + loc = EndOfReads
        /\ (pc = "done" /\ data.cut > 0) => outcome = "RangeError"
        /\ Returned => EndOfReads = ByteLength(data.buffer)
C9_CutPayloadThrows ==
    /\ ~IsAscii
    /\ data.cut > 0
    /\ pc = "done"
    /\ outcome = "RangeError"
    /\ Len(reads) > 3
    /\ Len(handled) > 0

(***************************************************************************)
(* Properties of the STL decode call.                                      *)
(***************************************************************************)
IsBinaryFile == data.kind = "binary"
SizeMatches(b) ==
    /\ Len(b) >= 84
    /\ (Len(b) - 84) % 50 = 0
    /\ Slice(b, 80, 84) = EncodeInt((Len(b) - 84) \div 50, 4, TRUE)
HasHighByte(b) == \E k \in 1..Len(b) : b[k] > 127

\* C5: parse classifies every input buffer: binary when its length is
\* 84 + 50*n for the count n at offset 80, otherwise binary exactly when
\* some byte is above 127 and ASCII when none is; a buffer the size test
\* does not accept is classified by the byte scan alone.
C5_Classification ==
    [][pc = "parse" =>
          pc' = IF SizeMatches(data.bytes) \/ HasHighByte(data.bytes)
                THEN "parseBinary" ELSE "parseASCII"]_vars

ColorDetected == IsBinaryFile /\ pc # "parse" /\ data.colorAt \in 0..(80 - 10 - 1)
                     /\ "normals" \in DOMAIN geometry
ExpectedColor(packedColor, rgba) ==
    IF packedColor >= 32768
    THEN <<<<rgba[1], 255>>, <<rgba[2], 255>>, <<rgba[3], 255>>>>
    ELSE <<<<packedColor % 32, 31>>, <<(packedColor \div 32) % 32, 31>>,
           <<(packedColor \div 1024) % 32, 31>>>>

\* C6: with the default colour detected in the header, the three vertices
\* of every decoded triangle carry one colour: the header default (each
\* channel over 255) when bit 15 of the packed colour is set, the three
\* 5-bit fields (each over 31) when it is clear.
C6_FaceColours ==
    ColorDetected =>
        /\ Len(geometry.colors) = 3 * Len(handled)
        /\ \A t \in 1..Len(handled) : \A i \in 1..3 :
               geometry.colors[3 * (t - 1) + i]
                   = ExpectedColor(data.packed[t], data.rgba)

C6_OverrideAndDefault ==
    /\ ColorDetected
    /\ Returned
    /\ Len(handled) = 2
    /\ data.packed[1] = 3137
    /\ data.packed[2] >= 32768
    /\ geometry.colors[1] = <<<<1, 31>>, <<2, 31>>, <<3, 31>>>>
    /\ geometry.colors[6] = <<<<10, 255>>, <<20, 255>>, <<30, 255>>>>

ParsedAsAscii == pc # "parse" /\ DOMAIN geometry = {"faces", "vertices"}

\* C10: every face emitted by the ASCII decode references exactly the three
\* vertices of its own facet block, and a decode that met a block with
\* another number of vertices does not return a mesh.
C10_FacesOfOwnBlock ==
    ParsedAsAscii =>
        /\ \A k \in 1..Len(geometry.faces) :
               /\ handled[k].count = 3
               /\ <<geometry.faces[k].a, geometry.faces[k].b, geometry.faces[k].c>>
                      = <<handled[k].first, handled[k].first + 1, handled[k].first + 2>>
        /\ Returned => \A k \in 1..Len(handled) : handled[k].count = 3

(***************************************************************************)
(* Properties of the header and body expressions.                          *)
(***************************************************************************)
\* Where the payload starts: after the terminating line and its line break.
PayloadOffset == Len(data.head) + Len(EndHeader) + Len(data.eol)

\* C11: for a text with its terminating end_header line, headerLength is
\* the offset of the first payload byte: the bytes up to and including that
\* line and its line break.
C11_HeaderLengthIsPayloadOffset ==
    pc # "parseHeader" /\ data.terminated => header.headerLength = PayloadOffset

\* C13: the text taken as header directives, the terminator and the text
\* taken as body are adjacent: the body starts right after the end_header
\* and the white space that end the header text.
C13_HeaderAndBodyAdjacent ==
    pc = "done" /\ header.matched => loc = header.to + 11

(***************************************************************************)
(* Properties of the default colour of a binary STL file.                  *)
(***************************************************************************)
ReturnedBinary == IsBinaryFile /\ Returned /\ "normals" \in DOMAIN geometry
SignatureInHeader == data.colorAt \in 0..(80 - 10)

\* C12: a returned binary decode is flagged coloured exactly when COLOR=
\* and its four bytes lie inside the 80-byte header (start offsets 0..70);
\* then alpha is A/255 and every vertex of every triangle has a colour
\* entry, and otherwise there is neither a colour entry nor an alpha.
C12_ColourDetection ==
    ReturnedBinary =>
        /\ geometry.hasColors <=> SignatureInHeader
        /\ geometry.hasColors =>
               /\ geometry.alpha = <<data.rgba[4], 255>>
               /\ Len(geometry.colors) = 3 * data.declared
        /\ ~geometry.hasColors => geometry.colors = <<>> /\ geometry.alpha = <<>>

(***************************************************************************)
(* Properties of the line drawing.                                         *)
(***************************************************************************)
\* C14: every write of a point into the current line uses an index inside
\* the array of maxPoints vertices of the line.
C14_WriteInsideTheLine == write # -1 => write >= 0 /\ write < maxPoints

\* C15: the first point written into the line of the latest mousedown is
\* written at index 0 and sets the position of the line, and the points of
\* the line are at the consecutive indices 0, 1, 2, ...
C15_LineFilledFromZero ==
    theLine.first # -1 =>
        /\ theLine.first = 0
        /\ theLine.positioned
        /\ theLine.last = theLine.count - 1

=============================================================================
